---- MODULE Spec2Model ----
(***************************************************************************)
(* Bearer-token authentication of foodisave.se: login, logout, token       *)
(* verification and the credit rules of get_current_user                   *)
(* (backend/app/security.py, backend/app/api/v1/core/user_endpoints/       *)
(* authentication.py).                                                     *)
(*                                                                         *)
(* Time is an integer number of ticks; a UTC calendar day is DayLen ticks. *)
(* A request is a sequence of steps, one per round trip to the database;   *)
(* up to NumProcs requests are in flight and their steps interleave.       *)
(* Spec runs logins and token verifications, SpecLogout logins and         *)
(* logouts, SpecLookup token verifications next to logouts, SpecConc one   *)
(* get_current_user call per slot, SpecRevoke logouts next to such calls,  *)
(* SpecOverlap any number of calls, and SpecCredits and SpecHistory run    *)
(* logins and get_current_user calls one after the other.                  *)
(***************************************************************************)
EXTENDS Integers, FiniteSets, Sequences, TLC

\* ---------------------------------------------------------------- bounds
DayLen == 2
Horizon == 2
MaxTokens == 2
NumProcs == 2

\* settings.ACCESS_TOKEN_EXPIRE_MINUTES, in ticks
MaxAge == 1

StartTime == DayLen
MaxTime == StartTime + Horizon

\* a timestamp column holding NULL
None == 0 - 1
\* the result of .first() when no row matches
NoRow == [token |-> 0 - 1, user_id |-> 0 - 1, created_at |-> 0 - 1]

UserIds == {1, 2}
\* token strings that token_urlsafe can produce; 0 is a string it never produced
TokenStrs == 1..MaxTokens
PresentedStrs == 0..MaxTokens
Passwords == {"pw1", "pw2"}
Emails == {"a@x", "b@x", "nobody@x"}
\* the requests that can be in flight at the same time
Procs == 1..NumProcs

\* hist is a history variable: for every user, the days on which a
\* get_current_user call passed token verification (lookups), the days of
\* the now of the calls that committed (days), and the number of login
\* bonuses those calls granted (bonuses)
VARIABLES now, users, tokens, nextToken, resp, pc, sess, hist
vars == <<now, users, tokens, nextToken, resp, pc, sess, hist>>

\* ------------------------------------------------------- pure functions
\* datetime.date(): the calendar day of a timestamp
Date(t) == t \div DayLen

\* pwd_context.hash / pwd_context.verify: an opaque one-way digest
hash_password(password) == <<"bcrypt", password>>
verify_password(plain_password, hashed_password) ==
    hashed_password = hash_password(plain_password)

\* mutation: the recency bound taken as exclusive
TokenMatchesExclusive(row, token_str, t) ==
    row.token = token_str /\ row.created_at > t - MaxAge

\* the WHERE clause of verify_token_access
TokenMatches(row, token_str, t) ==
    row.token = token_str /\ row.created_at >= t - MaxAge

\* verify_token_access: the first matching row, or NoRow (-> 401)
verify_token_access(token_str, store, t) ==
    IF \E row \in store : TokenMatches(row, token_str, t)
    THEN CHOOSE row \in store : TokenMatches(row, token_str, t)
    ELSE NoRow

\* mutation: the refill rule without its calendar-day comparison
RefillRuleNoDateCheck(user, t) ==
    IF user.credits = 0 /\ user.last_credit_refill # None
    THEN [user EXCEPT !.credits = @ + 10, !.last_credit_refill = t]
    ELSE user

\* mutation: the refill rule without its "last_credit_refill is not None" guard
RefillRuleNoNullGuard(user, t) ==
    IF user.credits = 0 /\ Date(t) > Date(user.last_credit_refill)
    THEN [user EXCEPT !.credits = @ + 10, !.last_credit_refill = t]
    ELSE user

\* security.py 105-107
RefillRule(user, t) ==
    IF user.credits = 0 /\ user.last_credit_refill # None
       /\ Date(t) > Date(user.last_credit_refill)
    THEN [user EXCEPT !.credits = @ + 10, !.last_credit_refill = t]
    ELSE user

\* mutation: the login bonus compares timestamps instead of calendar days
LoginBonusRuleSameInstant(user, t) ==
    IF user.last_login_credit = None \/ user.last_login_credit # t
    THEN [user EXCEPT !.credits = @ + 1, !.last_login_credit = t]
    ELSE user

\* mutation: the login bonus is granted only while last_login_credit is unset
LoginBonusRuleFirstEver(user, t) ==
    IF user.last_login_credit = None
    THEN [user EXCEPT !.credits = @ + 1, !.last_login_credit = t]
    ELSE user

\* security.py 110-112
LoginBonusRule(user, t) ==
    IF user.last_login_credit = None \/ Date(user.last_login_credit) # Date(t)
    THEN [user EXCEPT !.credits = @ + 1, !.last_login_credit = t]
    ELSE user

\* mutation: the login bonus applied before the refill rule
ApplyRulesBonusFirst(user, t) == RefillRule(LoginBonusRule(user, t), t)

\* the in-memory mutations of one get_current_user call, refill first
ApplyRules(user, t) == LoginBonusRule(RefillRule(user, t), t)

\* mutation: the UPDATE adds the session's credit delta to the stored value
FlushRelative(dbrow, loaded, local) ==
    [dbrow EXCEPT
       !.credits = @ + (local.credits - loaded.credits),
       !.last_credit_refill =
                   IF local.last_credit_refill # loaded.last_credit_refill
                   THEN local.last_credit_refill ELSE @,
       !.last_login_credit =
                   IF local.last_login_credit # loaded.last_login_credit
                   THEN local.last_login_credit ELSE @]

\* db.commit() of the session: the UPDATE writes the new value of every
\* attribute the session changed since it loaded the row, as a literal
Flush(dbrow, loaded, local) ==
    [dbrow EXCEPT
       !.credits = IF local.credits # loaded.credits
                   THEN local.credits ELSE @,
       !.last_credit_refill =
                   IF local.last_credit_refill # loaded.last_credit_refill
                   THEN local.last_credit_refill ELSE @,
       !.last_login_credit =
                   IF local.last_login_credit # loaded.last_login_credit
                   THEN local.last_login_credit ELSE @]

\* ------------------------------------------------------------ responses
\* the response headers this fragment sets: none, or
\* {"WWW-Authenticate": "Bearer"}
NoHeaders == <<>>
WWWAuthenticateBearer == <<"WWW-Authenticate", "Bearer">>
\* a response that is returned: status, body and no header of the fragment
Response(op, status, detail, tok, uid) ==
    [op |-> op, status |-> status, detail |-> detail, headers |-> NoHeaders,
     token |-> tok, user |-> uid]
\* raise HTTPException(status_code, detail, headers={"WWW-Authenticate":
\* "Bearer"}), the form of every raise in the fragment
HTTPException(op, status, detail, tok, uid) ==
    [op |-> op, status |-> status, detail |-> detail,
     headers |-> WWWAuthenticateBearer, token |-> tok, user |-> uid]
NoResp == Response("none", 0, "", 0 - 1, 0 - 1)

\* --------------------------------------------------------------- Init
InitUser(id, cr, lcr, llc, act) ==
    [id |-> id,
     email |-> IF id = 1 THEN "a@x" ELSE "b@x",
     hashed_password |-> hash_password(IF id = 1 THEN "pw1" ELSE "pw2"),
     is_active |-> act,
     is_admin |-> (id = 1),
     credits |-> cr,
     last_credit_refill |-> lcr,
     last_login_credit |-> llc]

\* a session that holds no user object yet
NoUser == InitUser(0, 0, None, None, FALSE)
IdleSess == [token_str |-> 0 - 1, clock |-> None, row |-> NoRow,
             loaded |-> NoUser, local |-> NoUser, now |-> None, status |-> 0]

NoHist == [u \in UserIds |-> [lookups |-> {}, days |-> {}, bonuses |-> 0]]

\* day 0 is over: user 1 (the administrator) has 0 credits and never had a
\* refill, user 2 has 1 credit and a refill stamp of day 0; nobody is logged in
Init ==
    /\ now = StartTime
    /\ users = [u \in UserIds |->
                  IF u = 1 THEN InitUser(1, 0, None, None, TRUE)
                           ELSE InitUser(2, 1, 0, None, TRUE)]
    /\ tokens = {}
    /\ nextToken = 1
    /\ resp = NoResp
    /\ pc = [p \in Procs |-> "idle"]
    /\ sess = [p \in Procs |-> IdleSess]
    /\ hist = NoHist

\* ------------------------------------------------------------- requests
\* A request runs in a slot p of Procs.  Every action below is one round
\* trip to the database together with the in-memory statements that follow
\* it, or the statements that run before the first one; between two actions
\* of a request the other requests and the clock can move.  pc[p] is the position of the request in slot p, sess[p] what
\* its session holds, resp the response sent last at the current instant.

\* the slots in which a new request can start
Free == {"idle", "done", "admin"}

\* the clock advances
Tick ==
    /\ now < MaxTime
    /\ now' = now + 1
    /\ resp' = NoResp
    /\ UNCHANGED <<users, tokens, nextToken, pc, sess, hist>>

\* select(Users).where(Users.email == username).first()
UserByEmail(email) ==
    IF \E u \in UserIds : users[u].email = email
    THEN CHOOSE u \in UserIds : users[u].email = email
    ELSE 0 - 1

\* Token.created_at is not passed by create_database_token: the column
\* default stamps the row with the time of the insert
TokenCreatedAtDefault(t) == t

\* create_database_token: token_urlsafe() draws a string no earlier call has
\* drawn (the nextToken-th string); the row is added and committed
create_database_token(user_id, store, t) ==
    store \cup {[token |-> nextToken, user_id |-> user_id,
                 created_at |-> TokenCreatedAtDefault(t)]}

\* token_urlsafe has a string left for this login and for every login that
\* has passed its checks and not inserted its row yet
TokenStrLeft ==
    nextToken + Cardinality({q \in Procs : pc[q] = "login"}) <= MaxTokens

\* the detail of login's 403
AccountNotActivated ==
    "Account not activated. Please check your email and activate your account."

\* login raises: the request in slot p ends with an error response
LoginRaises(p, status, detail, uid) ==
    /\ resp' = HTTPException("login", status, detail, 0 - 1, uid)
    /\ pc' = [pc EXCEPT ![p] = "idle"]
    /\ sess' = [sess EXCEPT ![p] = IdleSess]
    /\ UNCHANGED <<users, tokens, nextToken>>

\* login has passed its three checks on the row it read and goes on to
\* create_database_token
LoginPasses(p, u) ==
    /\ TokenStrLeft
    /\ resp' = NoResp
    /\ pc' = [pc EXCEPT ![p] = "login"]
    /\ sess' = [sess EXCEPT ![p] = [IdleSess EXCEPT !.loaded = users[u]]]
    /\ UNCHANGED <<users, tokens, nextToken>>

\* mutation: the token is issued before the is_active check
LoginTokenBeforeActiveCheck(p, email, password) ==
    LET u == UserByEmail(email) IN
    /\ pc[p] \in Free
    /\ IF u = 0 - 1
       THEN LoginRaises(p, 400, "User does not exist", 0 - 1)
       ELSE IF ~verify_password(password, users[u].hashed_password)
       THEN LoginRaises(p, 401, "Passwords do not match", u)
       ELSE IF ~users[u].is_active
       THEN /\ TokenStrLeft
            /\ tokens' = create_database_token(u, tokens, now)
            /\ nextToken' = nextToken + 1
            /\ resp' = HTTPException("login", 403, AccountNotActivated, 0 - 1, u)
            /\ pc' = [pc EXCEPT ![p] = "idle"]
            /\ sess' = [sess EXCEPT ![p] = IdleSess]
            /\ UNCHANGED users
       ELSE LoginPasses(p, u)
    /\ UNCHANGED <<now, hist>>

\* mutation: the is_active check runs before the password check
LoginActiveCheckFirst(p, email, password) ==
    LET u == UserByEmail(email) IN
    /\ pc[p] \in Free
    /\ IF u = 0 - 1
       THEN LoginRaises(p, 400, "User does not exist", 0 - 1)
       ELSE IF ~users[u].is_active
       THEN LoginRaises(p, 403, AccountNotActivated, u)
       ELSE IF ~verify_password(password, users[u].hashed_password)
       THEN LoginRaises(p, 401, "Passwords do not match", u)
       ELSE LoginPasses(p, u)
    /\ UNCHANGED <<now, hist>>

\* mutation: an unknown email is answered with 401
LoginUnknownUnauthorized(p, email, password) ==
    LET u == UserByEmail(email) IN
    /\ pc[p] \in Free
    /\ IF u = 0 - 1
       THEN LoginRaises(p, 401, "User does not exist", 0 - 1)
       ELSE IF ~verify_password(password, users[u].hashed_password)
       THEN LoginRaises(p, 401, "Passwords do not match", u)
       ELSE IF ~users[u].is_active
       THEN LoginRaises(p, 403, AccountNotActivated, u)
       ELSE LoginPasses(p, u)
    /\ UNCHANGED <<now, hist>>

\* POST /auth/token, lines 33-58: the SELECT of the user row and the three
\* checks on the row it returned
Login(p, email, password) ==
    LET u == UserByEmail(email) IN
    /\ pc[p] \in Free
    /\ IF u = 0 - 1
       THEN LoginRaises(p, 400, "User does not exist", 0 - 1)
       ELSE IF ~verify_password(password, users[u].hashed_password)
       THEN LoginRaises(p, 401, "Passwords do not match", u)
       ELSE IF ~users[u].is_active
       THEN LoginRaises(p, 403, AccountNotActivated, u)
       ELSE LoginPasses(p, u)
    /\ UNCHANGED <<now, hist>>

\* mutation: a successful login grants the login bonus itself
LoginGrantsBonus(p) ==
    LET user == sess[p].loaded IN
    /\ pc[p] = "login"
    /\ tokens' = create_database_token(user.id, tokens, now)
    /\ nextToken' = nextToken + 1
    /\ users' = [users EXCEPT ![user.id] = LoginBonusRule(@, now)]
    /\ resp' = Response("login", 200, "bearer", nextToken, user.id)
    /\ pc' = [pc EXCEPT ![p] = "idle"]
    /\ sess' = [sess EXCEPT ![p] = IdleSess]
    /\ UNCHANGED <<now, hist>>

\* POST /auth/token, lines 59-60: create_database_token inserts the row for
\* the user the SELECT returned, whatever has been committed since, and the
\* token is returned
LoginCreateToken(p) ==
    LET user == sess[p].loaded IN
    /\ pc[p] = "login"
    /\ tokens' = create_database_token(user.id, tokens, now)
    /\ nextToken' = nextToken + 1
    /\ resp' = Response("login", 200, "bearer", nextToken, user.id)
    /\ pc' = [pc EXCEPT ![p] = "idle"]
    /\ sess' = [sess EXCEPT ![p] = IdleSess]
    /\ UNCHANGED <<now, users, hist>>

\* ---------------------------------------------------------- token lookup
\* verify_token_access, line 81: datetime.now(UTC) is read while the
\* statement is built, then the SELECT goes to the database.  The request in
\* slot p waits at position pos for the answer; the clock and the other
\* requests move in between
ReadClock(p, token_str, pos) ==
    /\ pc[p] \in Free
    /\ pc' = [pc EXCEPT ![p] = pos]
    /\ sess' = [sess EXCEPT ![p] = [IdleSess EXCEPT !.token_str = token_str,
                                                    !.clock = now]]
    /\ resp' = NoResp
    /\ UNCHANGED <<now, users, tokens, nextToken, hist>>

\* the first step of a request that only runs get_current_token, of DELETE
\* /auth/logout and of a request that depends on get_current_user
GetCurrentTokenClock(p, token_str) == ReadClock(p, token_str, "select_token")
LogoutClock(p, token_str) == ReadClock(p, token_str, "select_logout")
GcuClock(p, token_str) == ReadClock(p, token_str, "select_user")

\* mutation: logout depends on get_current_user instead of get_current_token
LogoutGetCurrentTokenViaCurrentUser(p) ==
    LET token_str == sess[p].token_str
        current_token == verify_token_access(token_str, tokens, sess[p].clock)
    IN
    /\ pc[p] = "select_logout"
    /\ IF current_token = NoRow
       THEN /\ resp' = HTTPException("logout", 401, "Token invalid or expired", token_str, 0 - 1)
            /\ pc' = [pc EXCEPT ![p] = "idle"]
            /\ sess' = [sess EXCEPT ![p] = IdleSess]
            /\ UNCHANGED users
       ELSE LET uid == current_token.user_id
                after == [users EXCEPT ![uid] = ApplyRules(@, now)]
            IN /\ users' = after
               /\ IF after[uid].is_active
                  THEN /\ resp' = NoResp
                       /\ pc' = [pc EXCEPT ![p] = "logout"]
                       /\ sess' = [sess EXCEPT ![p] =
                                     [IdleSess EXCEPT !.row = current_token]]
                  ELSE /\ resp' = HTTPException("logout", 403, "Kontot ar inte aktiverat",
                                           token_str, uid)
                       /\ pc' = [pc EXCEPT ![p] = "idle"]
                       /\ sess' = [sess EXCEPT ![p] = IdleSess]
    /\ UNCHANGED <<now, tokens, nextToken, hist>>

\* DELETE /auth/logout, the dependency get_current_token: the SELECT of
\* verify_token_access is answered, for the string and with the clock the
\* request read.  No row ends the request with 401; a row is handed to the
\* body of logout, which runs as a job of its own, so other requests can be
\* served in between
LogoutGetCurrentToken(p) ==
    LET token_str == sess[p].token_str
        current_token == verify_token_access(token_str, tokens, sess[p].clock)
    IN
    /\ pc[p] = "select_logout"
    /\ IF current_token = NoRow
       THEN /\ resp' = HTTPException("logout", 401, "Token invalid or expired", token_str, 0 - 1)
            /\ pc' = [pc EXCEPT ![p] = "idle"]
            /\ sess' = [sess EXCEPT ![p] = IdleSess]
       ELSE /\ resp' = NoResp
            /\ pc' = [pc EXCEPT ![p] = "logout"]
            /\ sess' = [sess EXCEPT ![p] = [IdleSess EXCEPT !.row = current_token]]
    /\ UNCHANGED <<now, users, tokens, nextToken, hist>>

\* mutation: logout deletes every token of the token's user
LogoutAllOfUser(p) ==
    LET current_token == sess[p].row IN
    /\ pc[p] = "logout"
    /\ tokens' = {row \in tokens : row.user_id # current_token.user_id}
    /\ resp' = Response("logout", 204, "", current_token.token, current_token.user_id)
    /\ pc' = [pc EXCEPT ![p] = "idle"]
    /\ sess' = [sess EXCEPT ![p] = IdleSess]
    /\ UNCHANGED <<now, users, nextToken, hist>>

\* DELETE /auth/logout, the body: it deletes the rows whose token equals that
\* of the row the dependency returned (none, when another request has
\* deleted it since), commits and answers 204
Logout(p) ==
    LET current_token == sess[p].row IN
    /\ pc[p] = "logout"
    /\ tokens' = {row \in tokens : row.token # current_token.token}
    /\ resp' = Response("logout", 204, "", current_token.token, current_token.user_id)
    /\ pc' = [pc EXCEPT ![p] = "idle"]
    /\ sess' = [sess EXCEPT ![p] = IdleSess]
    /\ UNCHANGED <<now, users, nextToken, hist>>

\* mutation: a successful verification restarts the token's window
VerifyTokenAccessTouch(p) ==
    LET token_str == sess[p].token_str
        token == verify_token_access(token_str, tokens, sess[p].clock)
    IN
    /\ pc[p] = "select_token"
    /\ resp' = IF token = NoRow
               THEN HTTPException("verify", 401, "Token invalid or expired", token_str, 0 - 1)
               ELSE Response("verify", 200, "", token_str, token.user_id)
    /\ tokens' = IF token = NoRow THEN tokens
                 ELSE (tokens \ {token}) \cup {[token EXCEPT !.created_at = now]}
    /\ pc' = [pc EXCEPT ![p] = "idle"]
    /\ sess' = [sess EXCEPT ![p] = IdleSess]
    /\ UNCHANGED <<now, users, nextToken, hist>>

\* mutation: the 401 tells an expired token from an unknown one
VerifyTokenAccessLeaky(p) ==
    LET token_str == sess[p].token_str
        token == verify_token_access(token_str, tokens, sess[p].clock)
    IN
    /\ pc[p] = "select_token"
    /\ resp' = IF token # NoRow
               THEN Response("verify", 200, "", token_str, token.user_id)
               ELSE IF \E row \in tokens : row.token = token_str
               THEN HTTPException("verify", 401, "Token expired", token_str, 0 - 1)
               ELSE HTTPException("verify", 401, "Token not found", token_str, 0 - 1)
    /\ pc' = [pc EXCEPT ![p] = "idle"]
    /\ sess' = [sess EXCEPT ![p] = IdleSess]
    /\ UNCHANGED <<now, users, tokens, nextToken, hist>>

\* mutation: a failed verification deletes the expired row it found
VerifyTokenAccessSweep(p) ==
    LET token_str == sess[p].token_str
        token == verify_token_access(token_str, tokens, sess[p].clock)
    IN
    /\ pc[p] = "select_token"
    /\ resp' = IF token = NoRow
               THEN HTTPException("verify", 401, "Token invalid or expired", token_str, 0 - 1)
               ELSE Response("verify", 200, "", token_str, token.user_id)
    /\ tokens' = IF token = NoRow
                 THEN {row \in tokens : row.token # token_str}
                 ELSE tokens
    /\ pc' = [pc EXCEPT ![p] = "idle"]
    /\ sess' = [sess EXCEPT ![p] = IdleSess]
    /\ UNCHANGED <<now, users, nextToken, hist>>

\* a request that only runs get_current_token: the SELECT of
\* verify_token_access is answered, for the string and with the clock the
\* request read, and the request ends with the row (200) or with 401
VerifyTokenAccess(p) ==
    LET token_str == sess[p].token_str
        token == verify_token_access(token_str, tokens, sess[p].clock)
    IN
    /\ pc[p] = "select_token"
    /\ resp' = IF token = NoRow
               THEN HTTPException("verify", 401, "Token invalid or expired", token_str, 0 - 1)
               ELSE Response("verify", 200, "", token_str, token.user_id)
    /\ pc' = [pc EXCEPT ![p] = "idle"]
    /\ sess' = [sess EXCEPT ![p] = IdleSess]
    /\ UNCHANGED <<now, users, tokens, nextToken, hist>>

\* ------------------------------------------------------ get_current_user
\* mutation: the credit rules run on the token's row before its age is
\* checked, and are committed although the lookup fails
GcuVerifyRulesBeforeExpiry(p) ==
    LET token_str == sess[p].token_str
        token_obj == verify_token_access(token_str, tokens, sess[p].clock)
        found == {row \in tokens : row.token = token_str}
    IN
    /\ pc[p] = "select_user"
    /\ resp' = IF token_obj = NoRow
               THEN HTTPException("get_current_user", 401, "Token invalid or expired",
                                  token_str, 0 - 1)
               ELSE NoResp
    /\ IF token_obj = NoRow
       THEN /\ pc' = [pc EXCEPT ![p] = "done"]
            /\ sess' = [sess EXCEPT ![p] = [IdleSess EXCEPT !.status = 401]]
            /\ users' = IF found = {} THEN users
                        ELSE LET uid == (CHOOSE row \in found : TRUE).user_id
                             IN [users EXCEPT ![uid] = ApplyRules(@, now)]
       ELSE /\ pc' = [pc EXCEPT ![p] = "verified"]
            /\ sess' = [sess EXCEPT ![p] = [IdleSess EXCEPT !.row = token_obj]]
            /\ UNCHANGED users
    /\ UNCHANGED <<now, tokens, nextToken>>

\* line 100: the SELECT of verify_token_access is answered, for the string
\* and with the clock the call read; no row ends the request with 401.
\* (The history variable is set by the specification, see Recorded.)
GcuVerify(p) ==
    LET token_str == sess[p].token_str
        token_obj == verify_token_access(token_str, tokens, sess[p].clock)
    IN
    /\ pc[p] = "select_user"
    /\ resp' = IF token_obj = NoRow
               THEN HTTPException("get_current_user", 401, "Token invalid or expired",
                                  token_str, 0 - 1)
               ELSE NoResp
    /\ IF token_obj = NoRow
       THEN /\ pc' = [pc EXCEPT ![p] = "done"]
            /\ sess' = [sess EXCEPT ![p] = [IdleSess EXCEPT !.status = 401]]
       ELSE /\ pc' = [pc EXCEPT ![p] = "verified"]
            /\ sess' = [sess EXCEPT ![p] = [IdleSess EXCEPT !.row = token_obj]]
    /\ UNCHANGED <<now, users, tokens, nextToken>>

\* line 101: token_obj.user loads the user row, a round trip of its own;
\* the session keeps the row as it is stored at that moment
GcuLoad(p) ==
    LET user == users[sess[p].row.user_id] IN
    /\ pc[p] = "verified"
    /\ pc' = [pc EXCEPT ![p] = "loaded"]
    /\ sess' = [sess EXCEPT ![p].loaded = user]
    /\ UNCHANGED <<now, users, tokens, nextToken, resp, hist>>

\* mutation: the rules run only for an active user
GcuRulesActiveOnly(p) ==
    LET user == sess[p].loaded IN
    /\ pc[p] = "loaded"
    /\ pc' = [pc EXCEPT ![p] = "modified"]
    /\ sess' = [sess EXCEPT ![p].local = IF user.is_active THEN ApplyRules(user, now)
                                         ELSE user,
                            ![p].now = now]
    /\ UNCHANGED <<now, users, tokens, nextToken, resp, hist>>

\* lines 102-112: now is read, after the load and whatever has happened
\* since, and both rules run on the session's copy of the row, which no
\* other request sees before the commit
GcuRules(p) ==
    LET user == sess[p].loaded IN
    /\ pc[p] = "loaded"
    /\ pc' = [pc EXCEPT ![p] = "modified"]
    /\ sess' = [sess EXCEPT ![p].local = ApplyRules(user, now),
                            ![p].now = now]
    /\ UNCHANGED <<now, users, tokens, nextToken, resp, hist>>

\* mutation: the refill is committed on its own, the login bonus by a second
\* commit
GcuCommitRefillFirst(p) ==
    LET uid == sess[p].row.user_id
        refilled == RefillRule(sess[p].loaded, sess[p].now)
        refillStored == Flush(users[uid], sess[p].loaded, refilled) = users[uid]
    IN
    /\ pc[p] = "modified"
    /\ IF refillStored
       THEN /\ pc' = [pc EXCEPT ![p] = "committed"]
            /\ users' = [users EXCEPT
                           ![uid] = Flush(users[uid], sess[p].loaded, sess[p].local)]
       ELSE /\ pc' = pc
            /\ users' = [users EXCEPT
                           ![uid] = Flush(users[uid], sess[p].loaded, refilled)]
    /\ UNCHANGED <<now, tokens, nextToken, resp, sess>>

\* line 114: db.commit() writes what the session changed, whatever the other
\* requests have committed since the session read the row.  (The history
\* variable is set by the specification, see Recorded.)
GcuCommit(p) ==
    LET uid == sess[p].row.user_id IN
    /\ pc[p] = "modified"
    /\ pc' = [pc EXCEPT ![p] = "committed"]
    /\ users' = [users EXCEPT ![uid] = Flush(users[uid], sess[p].loaded, sess[p].local)]
    /\ UNCHANGED <<now, tokens, nextToken, resp, sess>>

\* lines 115-123: db.refresh(user) makes the session's object the stored row,
\* then the is_active check on it and the return of the object; the request
\* keeps the object and its status, the session is over
GcuReturn(p) ==
    LET user == users[sess[p].row.user_id] IN
    /\ pc[p] = "committed"
    /\ pc' = [pc EXCEPT ![p] = "done"]
    /\ sess' = [sess EXCEPT ![p] =
                  [IdleSess EXCEPT !.local = user,
                                   !.status = IF ~user.is_active THEN 403 ELSE 200]]
    /\ UNCHANGED <<now, users, tokens, nextToken, resp, hist>>

\* get_current_admin: the is_admin check on the object get_current_user
\* returned, for the endpoints that depend on it
GetCurrentAdmin(p) ==
    LET current_user == sess[p].local IN
    /\ pc[p] = "done" /\ sess[p].status = 200
    /\ pc' = [pc EXCEPT ![p] = "admin"]
    /\ sess' = [sess EXCEPT ![p].status = IF ~current_user.is_admin THEN 403 ELSE 200]
    /\ UNCHANGED <<now, users, tokens, nextToken, resp, hist>>

\* the history after a step of the call in slot p: a successful lookup
\* records its day; a commit records the day of the call's now, and a bonus
\* when the call raised the credits it read by the login bonus (+1, or +11
\* with a refill)
HistAfter(p) ==
    IF pc[p] = "select_user" /\ pc'[p] = "verified"
    THEN [hist EXCEPT ![sess'[p].row.user_id].lookups = @ \cup {Date(now)}]
    ELSE IF pc[p] = "modified" /\ pc'[p] = "committed"
    THEN LET gain == sess[p].local.credits - sess[p].loaded.credits
         IN [hist EXCEPT ![sess[p].row.user_id].days = @ \cup {Date(sess[p].now)},
                         ![sess[p].row.user_id].bonuses =
                             @ + (IF gain \in {1, 11} THEN 1 ELSE 0)]
    ELSE hist
\* the step in slot p is, or is not, written to the history
Recorded(p) == hist' = HistAfter(p)
NotRecorded == hist' = hist

\* operations outside this fragment: spending credits, (de)activating accounts
Spend(u) ==
    /\ users[u].credits > 0
    /\ users' = [users EXCEPT ![u].credits = 0]
    /\ resp' = NoResp
    /\ UNCHANGED <<now, tokens, nextToken, pc, sess, hist>>

SetActive(u, b) ==
    /\ users[u].is_active # b
    /\ users' = [users EXCEPT ![u].is_active = b]
    /\ resp' = NoResp
    /\ UNCHANGED <<now, tokens, nextToken, pc, sess, hist>>

\* accounts other than the administrator's
Members == UserIds \ {1}

\* ------------------------------------------------------- specifications
\* issued(T): token_urlsafe has produced T in a successful login
Issued(T) == T \in TokenStrs /\ T < nextToken
\* the slots other than slot 1
Callers == Procs \ {1}

\* logins that overlap each other, with the token verifications of slot 1,
\* one after the other, account (de)activation and the clock in between
Next ==
    \/ Tick
    \/ \E p \in Procs, e \in Emails, pw \in Passwords : Login(p, e, pw)
    \/ \E p \in Procs : LoginCreateToken(p)
    \/ \E s \in PresentedStrs : GetCurrentTokenClock(1, s)
    \/ VerifyTokenAccess(1)
    \/ \E u \in Members, b \in BOOLEAN : SetActive(u, b)

Spec == Init /\ [][Next]_vars

\* logouts that overlap each other and the logins of the member account,
\* which run one after the other in slot 1; a logout presents a token
\* string that a login has returned
NextLogout ==
    \/ Tick
    \/ \E pw \in Passwords : Login(1, "b@x", pw)
    \/ LoginCreateToken(1)
    \/ \E p \in Procs, s \in TokenStrs : Issued(s) /\ LogoutClock(p, s)
    \/ \E p \in Procs : LogoutGetCurrentToken(p)
    \/ \E p \in Procs : Logout(p)
    \/ \E u \in Members, b \in BOOLEAN : SetActive(u, b)

SpecLogout == Init /\ [][NextLogout]_vars

\* token verifications and the logins of the member account, one after the
\* other in slot 1, overlapped by the logouts of the other slots; a
\* verification presents any string, a logout one that a login has returned
NextLookup ==
    \/ Tick
    \/ \E pw \in Passwords : Login(1, "b@x", pw)
    \/ LoginCreateToken(1)
    \/ \E s \in PresentedStrs : GetCurrentTokenClock(1, s)
    \/ VerifyTokenAccess(1)
    \/ \E p \in Callers, s \in TokenStrs : Issued(s) /\ LogoutClock(p, s)
    \/ \E p \in Callers : LogoutGetCurrentToken(p)
    \/ \E p \in Callers : Logout(p)
    \/ \E u \in Members, b \in BOOLEAN : SetActive(u, b)

SpecLookup == Init /\ [][NextLookup]_vars

\* one request at a time, all in slot 1: a request begins when the one
\* before it has ended, so no two transactions overlap; only the clock moves
\* while a request runs.  A call presents a token string that a login has
\* returned
Quiet == \A q \in Procs : pc[q] \in Free
\* the logins with the right password
Credentials == {<<"a@x", "pw1">>, <<"b@x", "pw2">>}

NextCredits ==
    \/ Tick
    \/ \E c \in Credentials : Login(1, c[1], c[2])
    \/ LoginCreateToken(1)
    \/ \E s \in TokenStrs : Issued(s) /\ GcuClock(1, s)
    \/ GcuVerify(1) /\ NotRecorded
    \/ GcuLoad(1)
    \/ GcuRules(1)
    \/ GcuCommit(1) /\ NotRecorded
    \/ GcuReturn(1)
    \/ \E u \in UserIds : Quiet /\ Spend(u)
    \/ \E u \in Members, b \in BOOLEAN : Quiet /\ SetActive(u, b)

SpecCredits == Init /\ [][NextCredits]_vars

\* the same requests one at a time without the spending of credits, and
\* with the lookups and commits of the calls written to the history
NextHistory ==
    \/ Tick
    \/ \E c \in Credentials : Login(1, c[1], c[2])
    \/ LoginCreateToken(1)
    \/ \E s \in PresentedStrs : GcuClock(1, s)
    \/ GcuVerify(1) /\ Recorded(1)
    \/ GcuLoad(1)
    \/ GcuRules(1)
    \/ GcuCommit(1) /\ Recorded(1)
    \/ GcuReturn(1)
    \/ \E u \in Members, b \in BOOLEAN : Quiet /\ SetActive(u, b)

SpecHistory == Init /\ [][NextHistory]_vars

\* both rules are eligible for every user; every token string is issued to
\* user 2 and still within max_age
InitConc ==
    /\ now = StartTime
    /\ \E l2 \in {None, 0}, a2 \in BOOLEAN :
          users = [u \in UserIds |->
                     IF u = 1 THEN InitUser(1, 0, 0, None, TRUE)
                              ELSE InitUser(2, 0, 0, l2, a2)]
    /\ tokens = {[token |-> k, user_id |-> 2, created_at |-> StartTime - (k % 2)]
                   : k \in TokenStrs}
    /\ nextToken = MaxTokens + 1
    /\ resp = NoResp
    /\ pc = [p \in Procs |-> "idle"]
    /\ sess = [p \in Procs |-> IdleSess]
    /\ hist = NoHist

\* the slots of SpecConc are taken in the order of their numbers
InOrder(p) == \A q \in Procs : q < p => pc[q] # "idle"

\* NumProcs calls of get_current_user, one per slot, that overlap each
\* other; each presents one of the token strings of InitConc
NextConc ==
    \/ Tick
    \/ \E p \in Procs, s \in TokenStrs :
          pc[p] = "idle" /\ InOrder(p) /\ GcuClock(p, s)
    \/ \E p \in Procs : GcuVerify(p) /\ NotRecorded
    \/ \E p \in Procs : GcuLoad(p)
    \/ \E p \in Procs : GcuRules(p)
    \/ \E p \in Procs : GcuCommit(p) /\ NotRecorded
    \/ \E p \in Procs : GcuReturn(p)

SpecConc == InitConc /\ [][NextConc]_vars

\* the logouts of slot 1, one after the other, and one call of
\* get_current_user in each of the other slots, all overlapping each other
NextRevoke ==
    \/ Tick
    \/ \E s \in TokenStrs : pc[1] = "idle" /\ LogoutClock(1, s)
    \/ LogoutGetCurrentToken(1)
    \/ Logout(1)
    \/ \E p \in Callers, s \in PresentedStrs : pc[p] = "idle" /\ GcuClock(p, s)
    \/ \E p \in Callers : GcuVerify(p) /\ NotRecorded
    \/ \E p \in Callers : GcuLoad(p)
    \/ \E p \in Callers : GcuRules(p)
    \/ \E p \in Callers : GcuCommit(p) /\ NotRecorded
    \/ \E p \in Callers : GcuReturn(p)

\* InitConc with user 2 active and without a login bonus so far
InitRevoke ==
    /\ InitConc
    /\ users[2].is_active
    /\ users[2].last_login_credit = None

SpecRevoke == InitRevoke /\ [][NextRevoke]_vars

\* as InitConc, with the first token string issued to user 1, the
\* administrator, who has a refill stamp of day 0 or none, and every token
\* issued at the start
InitOverlap ==
    /\ now = StartTime
    /\ \E l1 \in {None, 0}, l2 \in {None, 0}, a2 \in BOOLEAN :
          users = [u \in UserIds |->
                     IF u = 1 THEN InitUser(1, 0, l1, None, TRUE)
                              ELSE InitUser(2, 0, 0, l2, a2)]
    /\ tokens = {[token |-> k, user_id |-> IF k = 1 THEN 1 ELSE 2,
                  created_at |-> StartTime] : k \in TokenStrs}
    /\ nextToken = MaxTokens + 1
    /\ resp = NoResp
    /\ pc = [p \in Procs |-> "idle"]
    /\ sess = [p \in Procs |-> IdleSess]
    /\ hist = NoHist

\* calls of get_current_user and get_current_admin that overlap each other,
\* any number of them over the days
NextOverlap ==
    \/ Tick
    \/ \E p \in Procs, s \in PresentedStrs : GcuClock(p, s)
    \/ \E p \in Procs : GcuVerify(p) /\ NotRecorded
    \/ \E p \in Procs : GcuLoad(p)
    \/ \E p \in Procs : GcuRules(p)
    \/ \E p \in Procs : GcuCommit(p) /\ NotRecorded
    \/ \E p \in Procs : GcuReturn(p)
    \/ \E p \in Procs : GetCurrentAdmin(p)

SpecOverlap == InitOverlap /\ [][NextOverlap]_vars

TypeOK ==
    /\ now \in StartTime..MaxTime
    /\ \A u \in UserIds : users[u].credits >= 0
    /\ \A row \in tokens : row.token \in TokenStrs /\ row.user_id \in UserIds

\* ------------------------------------------------------------ properties
StartDay == Date(StartTime)
HasRow(store, token_str) == \E r \in store : r.token = token_str
\* the credit fields of a user row
Credit(user) == <<user.credits, user.last_credit_refill, user.last_login_credit>>
\* token_str has a stored row that is within max_age at time t
LiveAt(token_str, t) ==
    \E r \in tokens : r.token = token_str /\ r.created_at >= t - MaxAge
\* the SELECT of the token lookup of the request in slot p is answered
Answered(p) ==
    /\ pc[p] \in {"select_token", "select_logout", "select_user"}
    /\ pc'[p] # pc[p]
\* the request in slot p reads its clock and sends the SELECT
Asking(p) ==
    /\ pc'[p] \in {"select_token", "select_logout", "select_user"}
    /\ pc'[p] # pc[p]

\* the steps of the get_current_user call in slot p, told by its position
Verifying(p) == pc[p] = "select_user" /\ pc'[p] # "select_user"
Committing(p) == pc[p] = "modified" /\ pc'[p] = "committed"
\* the rules as they apply to the row a call has read, at the call's now
RefillDue(user, t) ==
    /\ user.credits = 0
    /\ user.last_credit_refill # None
    /\ Date(user.last_credit_refill) < Date(t)
BonusDue(user, t) ==
    \/ user.last_login_credit = None
    \/ Date(user.last_login_credit) # Date(t)

\* the calls of SpecConc whose token resolved to user u
CallsFor(u) == {p \in Procs : sess[p].row.user_id = u \/ sess[p].local.id = u}
AllCommitted == \A p \in Procs : pc[p] \in {"committed", "done"}

\* every token's window ends on the start day, so every call whose lookup
\* succeeded started on that day
LookupsOnStartDay == \A r \in tokens : Date(r.created_at + MaxAge) = StartDay

C2_LoginBonusOncePerDay ==
    [][\A p \in Procs :
          Committing(p)
          => LET u == sess[p].row.user_id IN
             (/\ users[u].last_login_credit # None
              /\ Date(users[u].last_login_credit) = Date(sess[p].now))
             => /\ users'[u].last_login_credit = users[u].last_login_credit
                /\ users'[u].credits = users[u].credits
                     + (IF users'[u].last_credit_refill # users[u].last_credit_refill
                        THEN 10 ELSE 0)]_vars

\* a later call of the day in which the refill fired and the bonus did not
C2_Witness ==
    \E p \in Procs :
       LET u == sess[p].row.user_id IN
       /\ pc[p] = "committed"
       /\ users[u].last_credit_refill = sess[p].now
       /\ users[u].last_login_credit # None
       /\ users[u].last_login_credit < sess[p].now
       /\ Date(users[u].last_login_credit) = Date(sess[p].now)
       /\ users[u].credits = 10

\* C3: in a sequence of non-overlapping get_current_user calls, a call for a
\* user whose last_credit_refill is dated on the day of the call's now does
\* not refill, even when the user's credits are 0 at the call.
C3_RefillOncePerDay ==
    [][\A p \in Procs :
          Committing(p)
          => LET u == sess[p].row.user_id IN
             (/\ users[u].last_credit_refill # None
              /\ Date(users[u].last_credit_refill) = Date(sess[p].now))
             => /\ users'[u].last_credit_refill = users[u].last_credit_refill
                /\ users'[u].credits - users[u].credits \in {0, 1}]_vars

\* a call made at 0 credits after the day's refill was spent
C3_Witness ==
    \E p \in Procs :
       LET u == sess[p].row.user_id IN
       /\ pc[p] = "committed"
       /\ sess[p].loaded.credits = 0
       /\ users[u].credits = 0
       /\ users[u].last_credit_refill >= StartTime
       /\ users[u].last_credit_refill < sess[p].now
       /\ Date(users[u].last_credit_refill) = Date(sess[p].now)

\* the requests whose token lookup has succeeded and whose logout body has
\* not run yet, for token string T
LogoutsInFlight(T) == {p \in Procs : pc[p] = "logout" /\ sess[p].row.token = T}

\* C4: a logout that answers 204 for token T removes the row of T and no
\* other row: it leaves the store without T's row and with every other row
\* (one row fewer when T's row was still stored), and every other token
\* still verifies while it is within max_age.  Once T's row is gone it stays
\* gone, and every lookup of T that is answered after the deletion finds
\* nothing and ends its request, a logout too, with 401.
C4_LogoutRevokesExactlyOne ==
    [][/\ \A p \in Procs :
             Logout(p)
             => LET T == sess[p].row.token IN
                /\ resp'.status = 204 /\ resp'.token = T
                /\ tokens' = {r \in tokens : r.token # T}
                /\ HasRow(tokens, T) => Cardinality(tokens') = Cardinality(tokens) - 1
                /\ \A r \in tokens :
                      (r.token # T /\ r.created_at >= now' - MaxAge)
                      => verify_token_access(r.token, tokens', now') = r
       /\ \A T \in TokenStrs :
             (Issued(T) /\ ~HasRow(tokens, T))
             => /\ ~HasRow(tokens', T)
                /\ verify_token_access(T, tokens', now') = NoRow
                /\ \A p \in Procs :
                      (Answered(p) /\ sess[p].token_str = T)
                      => /\ resp'.status = 401 /\ resp'.token = T
                         /\ pc'[p] = "idle"]_vars

\* T is logged out while another token of T's user is stored and valid, and
\* a second logout with T, whose lookup was answered before the deletion, is
\* in flight
C4_Witness ==
    /\ resp.op = "logout" /\ resp.status = 204
    /\ ~HasRow(tokens, resp.token)
    /\ LogoutsInFlight(resp.token) # {}
    /\ \E r \in tokens : /\ r.user_id = resp.user
                         /\ r.token # resp.token
                         /\ verify_token_access(r.token, tokens, now) = r

\* C5: a verification that reads the clock at time t succeeds exactly when
\* the store holds, when its SELECT is answered, a row with that exact token
\* string and created_at >= t - max_age; it answers with that row's user.
C5_VerifyIffStoredAndRecent ==
    [][/\ \A p \in Procs :
             (pc[p] = "select_token" /\ pc'[p] # "select_token")
             => /\ resp'.op = "verify" /\ resp'.token = sess[p].token_str
                /\ resp'.status \in {200, 401}
                /\ resp'.status = 200
                   <=> \E r \in tokens : /\ r.token = sess[p].token_str
                                         /\ r.created_at >= sess[p].clock - MaxAge
                /\ resp'.status = 200
                   => \E r \in tokens : /\ r.token = resp'.token
                                        /\ r.user_id = resp'.user
       /\ resp'.op = "verify"
          => \E p \in Procs : pc[p] = "select_token" /\ pc'[p] = "idle"]_vars

\* a token exactly max_age old is accepted
C5_Witness ==
    /\ resp.op = "verify" /\ resp.status = 200
    /\ \E r \in tokens : r.token = resp.token /\ r.created_at = now - MaxAge

\* C6: a token row is never altered, the token of a successful login
\* verifies from its issuance on as long as its row is stored and
\* t - created_at <= max_age for the time t of the verification's clock, and
\* a stored token older than that stays invalid for ever.
C6_WindowFixedAtIssuance ==
    [][/\ \A r \in tokens, r2 \in tokens' : r.token = r2.token => r2 = r
       /\ (resp'.op = "login" /\ resp'.status = 200)
          => /\ verify_token_access(resp'.token, tokens', now').user_id = resp'.user
             /\ verify_token_access(resp'.token, tokens', now').created_at = now
       /\ \A r \in tokens' :
             verify_token_access(r.token, tokens', now') =
                IF now' - r.created_at <= MaxAge THEN r ELSE NoRow
       /\ \A p \in Procs :
             (pc[p] = "select_token" /\ pc'[p] # "select_token")
             => resp'.status =
                   IF \E r \in tokens : /\ r.token = sess[p].token_str
                                        /\ sess[p].clock - r.created_at <= MaxAge
                   THEN 200 ELSE 401
       /\ \A p \in Procs, r \in tokens :
             sess[p].clock # None /\ sess[p].clock - r.created_at > MaxAge
             => verify_token_access(r.token, tokens', sess[p].clock) = NoRow
       /\ \A r \in tokens :
             now - r.created_at > MaxAge
             => verify_token_access(r.token, tokens', now') = NoRow]_vars

\* a token is refused at the first instant its window is over, while a
\* token issued later still verifies
C6_Witness ==
    /\ resp.op = "verify" /\ resp.status = 401
    /\ \E r \in tokens : /\ r.token = resp.token
                         /\ now - r.created_at = MaxAge + 1
    /\ \E r \in tokens : verify_token_access(r.token, tokens, now) = r

\* C7: a failed login leaves the token store as it was, and so does a login
\* that has passed its checks until it stores its row; a successful login
\* adds exactly one row, bound to the user whose email and password were
\* presented and whose row it read as active; no row is removed or altered
\* by a login, so a token keeps its owner.
C7_LoginTokenFrame ==
    [][/\ resp'.op = "login"
          => /\ resp'.status \in {200, 400, 401, 403}
             /\ resp'.status # 200 => tokens' = tokens
             /\ resp'.status = 200
                => \E row \in tokens' :
                      /\ ~HasRow(tokens, row.token)
                      /\ tokens' = tokens \cup {row}
                      /\ row.token = resp'.token
                      /\ row.user_id = resp'.user
                      /\ \E p \in Procs : /\ pc[p] = "login" /\ pc'[p] = "idle"
                                          /\ sess[p].loaded.id = row.user_id
                                          /\ sess[p].loaded.is_active
       /\ \A p \in Procs : (pc[p] # "login" /\ pc'[p] = "login") => tokens' = tokens
       /\ \A r \in tokens, r2 \in tokens' :
             r.token = r2.token => r2.user_id = r.user_id]_vars

\* a user holds two valid tokens after a second successful login
C7_Witness ==
    /\ resp.op = "login" /\ resp.status = 200
    /\ Cardinality({r \in tokens : /\ r.user_id = resp.user
                                   /\ verify_token_access(r.token, tokens, now) = r}) >= 2

\* C8: a get_current_user call that reads a row with credits 0, a refill
\* stamp dated before the day of its now and no login bonus that day commits
\* credits 11 and both stamps equal to the call's now.
C8_BothRulesInOneCall ==
    [][\A p \in Procs :
          (/\ Committing(p)
           /\ RefillDue(sess[p].loaded, sess[p].now)
           /\ BonusDue(sess[p].loaded, sess[p].now))
          => LET u == sess[p].row.user_id IN
             /\ users'[u].credits = 11
             /\ users'[u].last_credit_refill = sess[p].now
             /\ users'[u].last_login_credit = sess[p].now]_vars

\* a call read a row with credits 0, another call's commit of credits 11 on
\* the start day came in, midnight passed, and the call then read its now and
\* committed credits 11 with both stamps that now
C8_Witness ==
    \E p, q \in Procs :
       /\ pc[p] = "committed" /\ sess[p].loaded.credits = 0
       /\ Date(sess[p].now) > StartDay
       /\ pc[q] = "done" /\ sess[q].status = 200
       /\ sess[q].local.id = sess[p].row.user_id
       /\ sess[q].local.credits = 11
       /\ Date(sess[q].local.last_credit_refill) = StartDay
       /\ users[sess[p].row.user_id].credits = 11
       /\ users[sess[p].row.user_id].last_credit_refill = sess[p].now
       /\ users[sess[p].row.user_id].last_login_credit = sess[p].now

\* C9: a user whose last_credit_refill is unset keeps it unset, and the
\* commit of a get_current_user call for such a user writes no refill stamp
\* and either leaves the credits alone or sets them to the credits the call
\* read plus the login bonus, also when the credits are 0 at the call.
C9_NoRefillWithoutStamp ==
    [][\A u \in UserIds :
          users[u].last_credit_refill = None
          => /\ users'[u].last_credit_refill = None
             /\ \A p \in Procs :
                   (Committing(p) /\ sess[p].row.user_id = u)
                   => /\ sess[p].local.last_credit_refill = None
                      /\ \/ users'[u].credits = users[u].credits
                         \/ users'[u].credits = sess[p].loaded.credits + 1]_vars

\* a call on a later day at 0 credits that granted the bonus only
C9_Witness ==
    \E p \in Procs :
       LET u == sess[p].row.user_id IN
       /\ pc[p] = "committed"
       /\ sess[p].loaded.credits = 0
       /\ sess[p].loaded.last_login_credit # None
       /\ users[u].last_credit_refill = None
       /\ users[u].credits = 1
       /\ users[u].last_login_credit = sess[p].now
       /\ Date(sess[p].now) > StartDay

\* C10: get_current_user with a valid token of a user whose row is inactive
\* at the refresh answers 403, and it does so after its commit, which wrote
\* what the rules grant for the row the call read whether or not the user is
\* active: +10 and a refill stamp of the call's now when the refill rule is
\* eligible, +1 and a bonus stamp of the call's now when the login-bonus
\* rule is eligible.
C10_InactiveForbiddenAfterCommit ==
    [][\A p \in Procs :
          LET u == sess[p].row.user_id
              refill == RefillDue(sess[p].loaded, sess[p].now)
              bonus == BonusDue(sess[p].loaded, sess[p].now)
          IN
          /\ Committing(p)
             => /\ (refill \/ bonus)
                   => users'[u].credits = sess[p].loaded.credits
                        + (IF refill THEN 10 ELSE 0) + (IF bonus THEN 1 ELSE 0)
                /\ users'[u].last_credit_refill =
                     IF refill THEN sess[p].now ELSE users[u].last_credit_refill
                /\ users'[u].last_login_credit =
                     IF bonus THEN sess[p].now ELSE users[u].last_login_credit
          /\ (pc'[p] = "done" /\ sess'[p].status \in {200, 403} /\ pc[p] # "done")
             => /\ pc[p] = "committed"
                /\ users' = users
                /\ sess'[p].status = 403 <=> ~users[u].is_active]_vars

\* a 403 answer whose call refilled and granted the bonus
C10_Witness ==
    \E p \in Procs :
       /\ pc[p] = "done" /\ sess[p].status = 403
       /\ ~sess[p].local.is_active
       /\ sess[p].local.credits = 11
       /\ sess[p].local.last_credit_refill >= StartTime
       /\ sess[p].local.last_login_credit >= StartTime

\* the account a login names by its email, if any
Account(email) == {u \in UserIds : users[u].email = email}

\* C11: login checks user-exists, password, is_active in this order on the
\* row it reads and answers 400, 401, 403; a wrong password for an inactive
\* account gets 401, and a login that passes all three stores a token and
\* answers 200 with that token and type "bearer".
C11_LoginCheckOrder ==
    [][/\ \A p \in Procs, e \in Emails, pw \in Passwords :
             Login(p, e, pw)
             => IF Account(e) = {}
                THEN resp'.status = 400 /\ pc'[p] = "idle"
                ELSE IF \E u \in Account(e) :
                           users[u].hashed_password # hash_password(pw)
                THEN resp'.status = 401 /\ pc'[p] = "idle"
                ELSE IF \E u \in Account(e) : ~users[u].is_active
                THEN resp'.status = 403 /\ pc'[p] = "idle"
                ELSE /\ pc'[p] = "login"
                     /\ sess'[p].loaded.id \in Account(e)
                     /\ resp'.op # "login"
       /\ \A p \in Procs :
             (pc[p] = "login" /\ pc'[p] = "idle")
             => /\ resp'.op = "login" /\ resp'.status = 200
                /\ resp'.detail = "bearer"
                /\ \E r \in tokens' \ tokens : /\ r.token = resp'.token
                                               /\ r.user_id = sess[p].loaded.id
       /\ (resp'.op = "login" /\ resp'.status = 200)
          => \E p \in Procs : pc[p] = "login" /\ pc'[p] = "idle"]_vars

\* a wrong password for the deactivated account was answered with 401
C11_Witness ==
    /\ resp.op = "login" /\ resp.status = 401
    /\ resp.user \in UserIds
    /\ ~users[resp.user].is_active

\* C12 as stated: a login whose email matches no user fails with 401
\* Unauthorized and the message "User does not exist".
C12_UnknownEmailUnauthorized ==
    [][\A p \in Procs, e \in Emails, pw \in Passwords :
          (Account(e) = {} /\ Login(p, e, pw))
          => resp'.status = 401 /\ resp'.detail = "User does not exist"]_vars

\* C12 amended: a login whose email matches no user fails with 400 Bad
\* Request and the message "User does not exist", and creates no token.
C12_UnknownEmailBadRequest ==
    [][\A p \in Procs, e \in Emails, pw \in Passwords :
          (Account(e) = {} /\ Login(p, e, pw))
          => /\ resp'.status = 400 /\ resp'.detail = "User does not exist"
             /\ pc'[p] = "idle"
             /\ tokens' = tokens]_vars

C12_Witness ==
    /\ resp.op = "login" /\ resp.status = 400
    /\ resp.detail = "User does not exist"
    /\ tokens # {}

\* what the caller of a request sees of its response
Observable(r) == [status |-> r.status, detail |-> r.detail, headers |-> r.headers]
\* the requests of SpecLogout that look a token up
TokenOps == {"verify", "logout"}

\* C13: the lookup of a token string that was never issued, of one that was
\* logged out, and of one whose row is older than max_age at the lookup's
\* clock gets the same answer in all three cases: status 401, message "Token
\* invalid or expired" and the header WWW-Authenticate: Bearer.
C13_SameAnswerForEveryInvalidToken ==
    [][\A p \in Procs :
          LET s == sess[p].token_str IN
          (/\ Answered(p)
           /\ \/ ~Issued(s)
              \/ (Issued(s) /\ ~HasRow(tokens, s))
              \/ \E r \in tokens : r.token = s /\ sess[p].clock - r.created_at > MaxAge)
          => /\ resp'.op \in TokenOps /\ resp'.token = s
             /\ Observable(resp') =
                   [status |-> 401, detail |-> "Token invalid or expired",
                    headers |-> <<"WWW-Authenticate", "Bearer">>]]_vars

\* an expired token is refused while an earlier token is already logged out
C13_Witness ==
    /\ resp.op = "verify" /\ resp.status = 401
    /\ \E r \in tokens : r.token = resp.token /\ now - r.created_at > MaxAge
    /\ \E T \in TokenStrs : Issued(T) /\ ~HasRow(tokens, T)

\* C14: credits are never negative, and no request of this fragment lowers
\* a user's credits.
C14_CreditsNeverDecrease ==
    /\ [](\A u \in UserIds : users[u].credits >= 0)
    /\ [][\A u \in UserIds : users'[u].credits >= users[u].credits]_vars

\* C16: a token lookup, successful or not, changes neither the token store
\* nor any user row, be it a request of its own or the dependency of logout,
\* and a token row disappears only in the body of a logout, which answers
\* 204; so a refused expired token keeps its row.
C16_VerifyChangesNothing ==
    [][/\ \/ tokens' = tokens /\ users' = users /\ nextToken' = nextToken
          \/ \A p \in Procs : ~Asking(p) /\ ~Answered(p)
       /\ \A r \in tokens :
             r \notin tokens' => /\ \E p \in Procs : Logout(p)
                                 /\ resp'.op = "logout" /\ resp'.status = 204
                                 /\ resp'.token = r.token]_vars

\* an expired token was refused and its row is still stored
C16_Witness ==
    /\ resp.op = "verify" /\ resp.status = 401
    /\ \E r \in tokens : r.token = resp.token /\ r.created_at < now - MaxAge

\* C17: a get_current_user call whose token does not verify (never issued,
\* expired at the call's clock, or logged out before the lookup is answered)
\* ends with 401 at its lookup and changes no user row; a lookup that
\* succeeds returns a stored row within max_age, and the credit fields change
\* only in the commit of a call whose lookup returned a row.
C17_FailedTokenNoCredits ==
    [][/\ \A p \in Procs :
             LET s == sess[p].token_str IN
             /\ (Asking(p) \/ Verifying(p)) => users' = users
             /\ (Verifying(p) /\ pc'[p] = "done")
                => /\ sess'[p].status = 401 /\ sess'[p].local = NoUser
                   /\ resp'.op = "get_current_user" /\ resp'.status = 401
                   /\ resp'.token = s
                   /\ ~LiveAt(s, sess[p].clock)
             /\ (Verifying(p) /\ pc'[p] = "verified")
                => /\ sess'[p].row \in tokens
                   /\ sess'[p].row.token = s
                   /\ sess[p].clock - sess'[p].row.created_at <= MaxAge
             /\ (Verifying(p) /\ ~LiveAt(s, sess[p].clock))
                => pc'[p] = "done" /\ sess'[p].status = 401
       /\ \A u \in UserIds :
             Credit(users'[u]) # Credit(users[u])
             => \E p \in Procs : /\ Committing(p)
                                 /\ sess[p].row # NoRow
                                 /\ sess[p].row.user_id = u]_vars

\* a call presented a token that had been logged out and was refused; the
\* token's user is still due the refill and the login bonus
C17_Witness ==
    /\ resp.op = "get_current_user" /\ resp.status = 401
    /\ Issued(resp.token) /\ ~HasRow(tokens, resp.token)
    /\ \A r \in tokens : now - r.created_at <= MaxAge
    /\ users[2].credits = 0
    /\ users[2].last_login_credit = None

\* C18: neither job of a logout changes a user row, also when the user is
\* due a refill or the login bonus; the lookup of a valid token hands the
\* row to the body whether or not its user is active, and the body answers
\* 204 and leaves the store without that token.
C18_LogoutSkipsUserRules ==
    [][/\ \A p \in Procs :
             ((pc[p] = "select_logout") # (pc'[p] = "select_logout"))
             => /\ users' = users
                /\ (Answered(p) /\ LiveAt(sess[p].token_str, sess[p].clock))
                   => /\ pc'[p] = "logout"
                      /\ sess'[p].row.token = sess[p].token_str
                      /\ resp'.status \notin {401, 403}
       /\ \A p \in Procs :
             Logout(p)
             => /\ users' = users
                /\ resp'.status = 204
                /\ ~HasRow(tokens', resp'.token)]_vars

\* a deactivated user who is due the login bonus has logged out
C18_Witness ==
    /\ resp.op = "logout" /\ resp.status = 204
    /\ ~users[resp.user].is_active
    /\ users[resp.user].last_login_credit = None

\* C19: neither step of a login, successful or not, changes a user row;
\* last_login_credit changes only in the commit of a get_current_user call
\* whose lookup returned a stored token row and which read no login bonus
\* for the day of its now.
C19_LoginGrantsNothing ==
    [][/\ resp'.op = "login" => users' = users
       /\ \A p \in Procs : (pc[p] # "login" /\ pc'[p] = "login") => users' = users
       /\ \A u \in UserIds :
             users'[u].last_login_credit # users[u].last_login_credit
             => \E p \in Procs :
                   /\ Committing(p)
                   /\ sess[p].row \in tokens
                   /\ sess[p].row.user_id = u
                   /\ BonusDue(sess[p].loaded, sess[p].now)
                   /\ users'[u].last_login_credit = sess[p].now]_vars

\* a user who is due the login bonus has logged in and still has 0 credits
C19_Witness ==
    /\ resp.op = "login" /\ resp.status = 200
    /\ users[resp.user].last_login_credit = None
    /\ users[resp.user].credits = 0

\* a user row that shows a refill of this run together with its login bonus
RefillWithBonus(user) ==
    user.last_credit_refill >= StartTime
    => /\ user.last_login_credit >= user.last_credit_refill
       /\ user.credits >= 11

\* C15: the refill and the login bonus of one call reach the database in one
\* commit: neither the stored rows, nor the row any request has read, nor
\* the row a refresh returned ever show a refill of this run without the
\* login bonus, and a call gets its 200 or 403 only once its commit is done.
C15_RefillAndBonusInOneCommit ==
    /\ [](/\ \A u \in UserIds : RefillWithBonus(users[u])
          /\ \A p \in Procs : /\ RefillWithBonus(sess[p].loaded)
                              /\ RefillWithBonus(sess[p].local))
    /\ [][\A p \in Procs :
             (sess[p].status = 0 /\ sess'[p].status \in {200, 403})
             => pc[p] = "committed" /\ users' = users]_vars

\* a call answered 403 after its commit, and another call has read the row
\* that commit wrote: credits 11, both stamps the first call's now
C15_Witness ==
    \E p, q \in Procs :
       /\ p # q
       /\ pc[p] = "done" /\ sess[p].status = 403
       /\ pc[q] = "modified"
       /\ sess[p].local.credits = 11
       /\ sess[p].local.last_credit_refill >= StartTime
       /\ sess[q].loaded = sess[p].local

\* C20 as stated: with calls one after the other and a clock that only moves
\* forward, a user has received, whenever no call is in flight, as many
\* login bonuses as there are days on which a get_current_user call for the
\* user passed token verification.
C20_OneBonusPerDayWithALookup ==
    \A u \in UserIds :
       Quiet => hist[u].bonuses = Cardinality(hist[u].lookups)

\* C20 amended: with calls one after the other and a clock that only moves
\* forward, a user has received as many login bonuses as there are days on
\* which a get_current_user call with a verified token of the user read its
\* now and committed, whether or not the user was active on those days.
C20_OneBonusPerDayWithACall ==
    \A u \in UserIds : hist[u].bonuses = Cardinality(hist[u].days)

\* a second day's bonus granted by a call that was answered 403
C20_Witness ==
    \E p \in Procs :
       /\ pc[p] = "done" /\ sess[p].status = 403
       /\ hist[sess[p].local.id].bonuses = 2
       /\ Cardinality(hist[sess[p].local.id].days) = 2
       /\ sess[p].local.last_login_credit = now

====
